---- MODULE Spec2Model ----
(***************************************************************************)
(* Model of rmm::mr::cuda_memory_resource                                  *)
(* (include/rmm/mr/device/cuda_memory_resource.hpp).                       *)
(*                                                                         *)
(* The resource is a stateless policy object: every member function makes  *)
(* exactly one call into the CUDA runtime (cudaMalloc, cudaFree,           *)
(* cudaMemGetInfo) and wraps its status in an error macro.  The only       *)
(* shared state is therefore the device itself, which the runtime guards   *)
(* with its own locking; each member function is one atomic step of the    *)
(* calling thread, and threads interleave at that granularity.             *)
(*                                                                         *)
(* Device memory is counted in bytes; the runtime reserves memory in       *)
(* multiples of Granule.  Addresses are small integers, 0 is nullptr.      *)
(***************************************************************************)
EXTENDS Integers, FiniteSets, Sequences, TLC

(* ------------------------------ bounds -------------------------------- *)
NumThreads == 2
NumObjs == 2
MaxStream == 1
TotalMem == 4

(* Allocation granularity of the native allocator, in model bytes. *)
Granule == 2

MaxBytes == TotalMem + 1

\* the default stream token
DefaultStream == 0

Threads == 1..NumThreads
ObjIds == 1..NumObjs
Streams == DefaultStream..MaxStream
Ptrs == 1..(TotalMem \div Granule)
Sizes == 0..MaxBytes

NullPtr == 0
NoPtr == -1
NoObj == -1
\* a resource of another device_memory_resource implementation
OtherObj == 0
NoInfo == <<-1, -1>>

VARIABLES
  objects,    \* ObjIds -> TRUE while a cuda_memory_resource object lives there
  memFree,    \* device-wide free byte count
  allocated,  \* Ptrs -> bytes requested at that address (0: not allocated)
  deviceOk,   \* FALSE once the device has reported a sticky fault
  aborted,    \* the process was terminated by a failed assertion
  via,        \* Ptrs -> resource object the address was allocated through
  reported,   \* free_bytes last reported by get_mem_info, -1 once stale
  last,       \* record of the last operation (the stream token, which no operation reads, is not recorded)
  pc,         \* Threads -> "idle", or "returning" from do_allocate
  loc,        \* Threads -> what do_allocate is returning to the thread
  held        \* Threads -> addresses the thread's caller code owns

device == <<memFree, allocated, deviceOk>>
observers == <<via, reported, last>>
threadVars == <<pc, loc, held>>
vars == <<objects, memFree, allocated, deviceOk, aborted, via, reported, last, pc, loc, held>>

RoundUp(bytes) == ((bytes + Granule - 1) \div Granule) * Granule

FreeAddrs == {p \in Ptrs : allocated[p] = 0}

RECURSIVE SumAllocated(_)
SumAllocated(S) ==
  IF S = {} THEN 0
  ELSE LET p == CHOOSE x \in S : TRUE
       IN RoundUp(allocated[p]) + SumAllocated(S \ {p})

\* dynamic type of a resource object
TypeOf(o) ==
  IF o = OtherObj THEN "other"
  ELSE IF o \in ObjIds /\ objects[o] THEN "cuda_memory_resource"
  ELSE "none"

LiveCuda == {o \in ObjIds : objects[o]}

Base(op, o) ==
  [op |-> op, obj |-> o, bytes |-> 0,
   ptr |-> NoPtr, native |-> "none", outcome |-> "ok", info |-> NoInfo,
   other |-> NoObj, flag |-> FALSE, pair |-> FALSE,
   freeBefore |-> memFree, allocBefore |-> allocated,
   pairFree |-> -1, pairAlloc |-> <<>>]

(* ----------------------- accelerator runtime -------------------------- *)

\* cudaMalloc(&ptr, bytes); addr is the address the runtime picks.
cudaMalloc(bytes, addr) ==
  IF ~deviceOk
  THEN [status |-> "cudaErrorLaunchFailure", ptr |-> NullPtr,
        memFree |-> memFree, allocated |-> allocated]
  ELSE IF bytes = 0
  THEN [status |-> "cudaSuccess", ptr |-> NullPtr,
        memFree |-> memFree, allocated |-> allocated]
  ELSE IF RoundUp(bytes) > memFree \/ addr \notin FreeAddrs
  THEN [status |-> "cudaErrorMemoryAllocation", ptr |-> NullPtr,
        memFree |-> memFree, allocated |-> allocated]
  ELSE [status |-> "cudaSuccess", ptr |-> addr,
        memFree |-> memFree - RoundUp(bytes),
        allocated |-> [allocated EXCEPT ![addr] = bytes]]

\* cudaFree(ptr)
cudaFree(ptr) ==
  IF ~deviceOk
  THEN [status |-> "cudaErrorLaunchFailure",
        memFree |-> memFree, allocated |-> allocated]
  ELSE IF ptr = NullPtr
  THEN [status |-> "cudaSuccess",
        memFree |-> memFree, allocated |-> allocated]
  ELSE IF ptr \notin Ptrs \/ allocated[ptr] = 0
  THEN [status |-> "cudaErrorInvalidValue",
        memFree |-> memFree, allocated |-> allocated]
  ELSE [status |-> "cudaSuccess",
        memFree |-> memFree + RoundUp(allocated[ptr]),
        allocated |-> [allocated EXCEPT ![ptr] = 0]]

\* cudaMemGetInfo(&free, &total)
cudaMemGetInfo ==
  IF ~deviceOk
  THEN [status |-> "cudaErrorLaunchFailure", free |-> 0, total |-> 0]
  ELSE [status |-> "cudaSuccess", free |-> memFree, total |-> TotalMem]

(* --------------------------- error macros ----------------------------- *)

\* throws rmm::out_of_memory on cudaErrorMemoryAllocation, rmm::bad_alloc otherwise
RMM_CUDA_TRY_ALLOC(status) ==
  IF status = "cudaSuccess" THEN "ok"
  ELSE IF status = "cudaErrorMemoryAllocation" THEN "out_of_memory"
  ELSE "bad_alloc"

\* throws rmm::cuda_error on any failure
RMM_CUDA_TRY(status) ==
  IF status = "cudaSuccess" THEN "ok" ELSE "cuda_error"

\* a failed status is a failed assertion: the process is terminated
RMM_ASSERT_CUDA_SUCCESS(status) ==
  IF status = "cudaSuccess" THEN "ok" ELSE "abort"

(* ------------------------ cuda_memory_resource ------------------------ *)

supports_streams == FALSE

supports_get_mem_info == TRUE

\* faulty variant: the failure check is missing, whatever cudaMalloc left in ptr is returned
do_allocate_Unchecked(this, bytes, stream, addr) ==
  LET n == cudaMalloc(bytes, addr)
  IN [outcome |-> "ok", native |-> n.status, ptr |-> n.ptr,
      memFree |-> n.memFree, allocated |-> n.allocated]

\* faulty variant: every native failure is reported as out of memory
do_allocate_AlwaysOOM(this, bytes, stream, addr) ==
  LET n == cudaMalloc(bytes, addr)
      o == IF n.status = "cudaSuccess" THEN "ok" ELSE "out_of_memory"
  IN [outcome |-> o, native |-> n.status,
      ptr |-> IF o = "ok" THEN n.ptr ELSE NoPtr,
      memFree |-> n.memFree, allocated |-> n.allocated]

\* faulty variant: the generic RMM_CUDA_TRY wraps cudaMalloc
do_allocate_GenericTry(this, bytes, stream, addr) ==
  LET n == cudaMalloc(bytes, addr)
      o == RMM_CUDA_TRY(n.status)
  IN [outcome |-> o, native |-> n.status,
      ptr |-> IF o = "ok" THEN n.ptr ELSE NoPtr,
      memFree |-> n.memFree, allocated |-> n.allocated]

\* faulty variant: a non-default stream is rejected
do_allocate_RejectStream(this, bytes, stream, addr) ==
  IF stream # DefaultStream
  THEN [outcome |-> "bad_alloc", native |-> "none", ptr |-> NoPtr,
        memFree |-> memFree, allocated |-> allocated]
  ELSE LET n == cudaMalloc(bytes, addr)
           o == RMM_CUDA_TRY_ALLOC(n.status)
       IN [outcome |-> o, native |-> n.status,
           ptr |-> IF o = "ok" THEN n.ptr ELSE NoPtr,
           memFree |-> n.memFree, allocated |-> n.allocated]

\* void* ptr{nullptr}; RMM_CUDA_TRY_ALLOC(cudaMalloc(&ptr, bytes)); return ptr;
do_allocate(this, bytes, stream, addr) ==
  LET n == cudaMalloc(bytes, addr)
      o == RMM_CUDA_TRY_ALLOC(n.status)
  IN [outcome |-> o, native |-> n.status,
      ptr |-> IF o = "ok" THEN n.ptr ELSE NoPtr,
      memFree |-> n.memFree, allocated |-> n.allocated]

\* faulty variant: cudaFree is never called
do_deallocate_NoFree(this, ptr, bytes, stream) ==
  [outcome |-> "ok", native |-> "cudaSuccess",
   memFree |-> memFree, allocated |-> allocated]

\* faulty variant: the status of cudaFree is dropped
do_deallocate_IgnoreStatus(this, ptr, bytes, stream) ==
  LET n == cudaFree(ptr)
  IN [outcome |-> "ok", native |-> n.status,
      memFree |-> n.memFree, allocated |-> n.allocated]

\* faulty variant: a null pointer is treated as a failed assertion
do_deallocate_AssertNonNull(this, ptr, bytes, stream) ==
  IF ptr = NullPtr
  THEN [outcome |-> "abort", native |-> "none",
        memFree |-> memFree, allocated |-> allocated]
  ELSE LET n == cudaFree(ptr)
       IN [outcome |-> RMM_ASSERT_CUDA_SUCCESS(n.status), native |-> n.status,
           memFree |-> n.memFree, allocated |-> n.allocated]

\* RMM_ASSERT_CUDA_SUCCESS(cudaFree(ptr));
do_deallocate(this, ptr, bytes, stream) ==
  LET n == cudaFree(ptr)
  IN [outcome |-> RMM_ASSERT_CUDA_SUCCESS(n.status), native |-> n.status,
      memFree |-> n.memFree, allocated |-> n.allocated]

\* faulty variant: equality is object identity
do_is_equal_Identity(this, other) == this = other

\* return dynamic_cast<cuda_memory_resource const*>(&other) != nullptr;
do_is_equal(this, other) == TypeOf(other) = "cuda_memory_resource"

\* faulty variant: the pair is built as (total, free)
do_get_mem_info_Swapped(this, stream) ==
  LET n == cudaMemGetInfo
      o == RMM_CUDA_TRY(n.status)
  IN [outcome |-> o, native |-> n.status,
      info |-> IF o = "ok" THEN <<n.total, n.free>> ELSE NoInfo]

\* RMM_CUDA_TRY(cudaMemGetInfo(&free_size, &total_size)); return make_pair(free_size, total_size);
do_get_mem_info(this, stream) ==
  LET n == cudaMemGetInfo
      o == RMM_CUDA_TRY(n.status)
  IN [outcome |-> o, native |-> n.status,
      info |-> IF o = "ok" THEN <<n.free, n.total>> ELSE NoInfo]

(* ----------------------- single caller: Spec -------------------------- *)

NoRet == [outcome |-> "none", ptr |-> NoPtr]

InitDevice ==
  /\ memFree = TotalMem
  /\ allocated = [p \in Ptrs |-> 0]
  /\ deviceOk = TRUE
  /\ aborted = FALSE

InitObservers ==
  /\ via = [p \in Ptrs |-> NoObj]
  /\ reported = -1
  /\ last = [op |-> "init", obj |-> NoObj, bytes |-> 0,
             ptr |-> NoPtr, native |-> "none", outcome |-> "ok", info |-> NoInfo,
             other |-> NoObj, flag |-> FALSE, pair |-> FALSE,
             freeBefore |-> TotalMem, allocBefore |-> [p \in Ptrs |-> 0],
             pairFree |-> -1, pairAlloc |-> <<>>]

InitThreads ==
  /\ pc = [t \in Threads |-> "idle"]
  /\ loc = [t \in Threads |-> NoRet]
  /\ held = [t \in Threads |-> {}]

Init ==
  /\ objects = [o \in ObjIds |-> FALSE]
  /\ InitDevice
  /\ InitObservers
  /\ InitThreads

\* cuda_memory_resource() = default
Construct(o) ==
  /\ ~aborted
  /\ ~objects[o]
  /\ objects' = [objects EXCEPT ![o] = TRUE]
  /\ last' = Base("construct", o)
  /\ UNCHANGED <<device, aborted, via, reported, threadVars>>

\* cuda_memory_resource(cuda_memory_resource const&) = default
CopyConstruct(src, dst) ==
  /\ ~aborted
  /\ objects[src]
  /\ ~objects[dst]
  /\ objects' = [objects EXCEPT ![dst] = TRUE]
  /\ last' = [Base("copy_construct", dst) EXCEPT !.other = src]
  /\ UNCHANGED <<device, aborted, via, reported, threadVars>>

\* cuda_memory_resource(cuda_memory_resource&&) = default: the moved-from object stays usable
MoveConstruct(src, dst) ==
  /\ ~aborted
  /\ objects[src]
  /\ ~objects[dst]
  /\ objects' = [objects EXCEPT ![dst] = TRUE]
  /\ last' = [Base("move_construct", dst) EXCEPT !.other = src]
  /\ UNCHANGED <<device, aborted, via, reported, threadVars>>

\* operator=(cuda_memory_resource const&) and operator=(cuda_memory_resource&&), both defaulted
Assign(src, dst) ==
  /\ ~aborted
  /\ objects[src]
  /\ objects[dst]
  /\ last' = Base("assign", NoObj)
  /\ UNCHANGED <<objects, device, aborted, via, reported, threadVars>>

\* ~cuda_memory_resource() = default
Destroy(o) ==
  /\ ~aborted
  /\ objects[o]
  /\ objects' = [objects EXCEPT ![o] = FALSE]
  /\ last' = Base("destroy", o)
  /\ UNCHANGED <<device, aborted, via, reported, threadVars>>

SupportsStreams(o) ==
  /\ ~aborted
  /\ objects[o]
  /\ last' = [Base("supports_streams", NoObj) EXCEPT !.flag = supports_streams]
  /\ UNCHANGED <<objects, device, aborted, via, reported, threadVars>>

SupportsGetMemInfo(o) ==
  /\ ~aborted
  /\ objects[o]
  /\ last' = [Base("supports_get_mem_info", NoObj) EXCEPT !.flag = supports_get_mem_info]
  /\ UNCHANGED <<objects, device, aborted, via, reported, threadVars>>

\* o.is_equal(b), b another cuda_memory_resource or a resource of another type
IsEqual(o, b) ==
  /\ ~aborted
  /\ objects[o]
  /\ TypeOf(b) # "none"
  /\ last' = [Base("is_equal", NoObj) EXCEPT !.flag = do_is_equal(o, b)]
  /\ UNCHANGED <<objects, device, aborted, via, reported, threadVars>>

\* the addresses the runtime may pick for the next allocation
AddrChoices == IF FreeAddrs = {} THEN {NullPtr} ELSE FreeAddrs

\* allocate(bytes, stream) through resource o
Allocate(o, bytes, s) ==
  /\ ~aborted
  /\ objects[o]
  /\ \E addr \in AddrChoices :
       LET r == do_allocate(o, bytes, s, addr)
       IN /\ memFree' = r.memFree
          /\ allocated' = r.allocated
          /\ via' = IF r.outcome = "ok" /\ r.ptr \in Ptrs
                    THEN [via EXCEPT ![r.ptr] = o] ELSE via
          /\ aborted' = (r.outcome = "abort")
          /\ last' = [Base("allocate", o) EXCEPT
                        !.bytes = bytes, !.ptr = r.ptr,
                        !.native = r.native, !.outcome = r.outcome]
  /\ UNCHANGED <<objects, deviceOk, reported, threadVars>>

\* the size the caller passes with ptr: the size it allocated ptr with
SizeOf(ptr) == IF ptr \in Ptrs THEN allocated[ptr] ELSE 0

\* deallocate(ptr, bytes, stream) through resource o: ptr is nullptr, an
\* outstanding pointer, or a pointer that is not allocated (double free,
\* corrupted pointer)
Deallocate(o, ptr, s) ==
  /\ ~aborted
  /\ objects[o]
  /\ LET bytes == SizeOf(ptr)
         r == do_deallocate(o, ptr, bytes, s)
         pair == /\ last.op = "allocate"
                 /\ last.outcome = "ok"
                 /\ last.ptr = ptr
                 /\ last.bytes = bytes
     IN /\ memFree' = r.memFree
        /\ allocated' = r.allocated
        /\ via' = IF r.outcome = "ok" /\ ptr \in Ptrs
                  THEN [via EXCEPT ![ptr] = NoObj] ELSE via
        /\ aborted' = (r.outcome = "abort")
        /\ last' = [Base("deallocate", o) EXCEPT
                      !.bytes = bytes, !.ptr = ptr,
                      !.native = r.native, !.outcome = r.outcome,
                      !.other = IF ptr \in Ptrs THEN via[ptr] ELSE NoObj,
                      !.pair = pair,
                      !.pairFree = IF pair THEN last.freeBefore ELSE -1,
                      !.pairAlloc = IF pair THEN last.allocBefore ELSE <<>>]
  /\ reported' = -1
  /\ UNCHANGED <<objects, deviceOk, threadVars>>

\* get_mem_info(stream) through resource o
GetMemInfo(o, s) ==
  /\ ~aborted
  /\ objects[o]
  /\ LET r == do_get_mem_info(o, s)
     IN /\ reported' = IF r.outcome = "ok" THEN r.info[1] ELSE reported
        /\ aborted' = (r.outcome = "abort")
        /\ last' = [Base("get_mem_info", o) EXCEPT
                      !.native = r.native, !.outcome = r.outcome,
                      !.info = r.info]
  /\ UNCHANGED <<objects, device, via, threadVars>>

\* the device enters a bad state: every later native call reports the fault
DeviceFault ==
  /\ ~aborted
  /\ deviceOk
  /\ deviceOk' = FALSE
  /\ last' = Base("device_fault", NoObj)
  /\ UNCHANGED <<objects, memFree, allocated, aborted, via, reported, threadVars>>

Next ==
  \/ \E o \in ObjIds : Construct(o)
  \/ \E a, b \in ObjIds : CopyConstruct(a, b)
  \/ \E a, b \in ObjIds : MoveConstruct(a, b)
  \/ \E a, b \in ObjIds : Assign(a, b)
  \/ \E o \in ObjIds : Destroy(o)
  \/ \E o \in ObjIds : SupportsStreams(o)
  \/ \E o \in ObjIds : SupportsGetMemInfo(o)
  \/ \E a \in ObjIds, b \in ObjIds \cup {OtherObj} : IsEqual(a, b)
  \/ \E o \in ObjIds, bytes \in Sizes, s \in Streams : Allocate(o, bytes, s)
  \/ \E o \in ObjIds, p \in {NullPtr} \cup Ptrs, s \in Streams : Deallocate(o, p, s)
  \/ \E o \in ObjIds, s \in Streams : GetMemInfo(o, s)
  \/ DeviceFault

Spec == Init /\ [][Next]_vars

(* -------------------- concurrent callers: SpecThreads ----------------- *)

\* thread t calls allocate(bytes, stream) through resource o; the call has run
\* cudaMalloc and is about to hand its result (or its exception) to the caller
T_Allocate(t, o, bytes, s) ==
  /\ ~aborted
  /\ pc[t] = "idle"
  /\ objects[o]
  /\ \E addr \in AddrChoices :
       LET r == do_allocate(o, bytes, s, addr)
       IN /\ memFree' = r.memFree
          /\ allocated' = r.allocated
          /\ aborted' = (r.outcome = "abort")
          /\ loc' = [loc EXCEPT ![t] = [outcome |-> r.outcome, ptr |-> r.ptr]]
  /\ pc' = [pc EXCEPT ![t] = "returning"]
  /\ UNCHANGED <<objects, deviceOk, observers, held>>

\* the caller of thread t receives the pointer (or catches the exception)
T_Return(t) ==
  /\ ~aborted
  /\ pc[t] = "returning"
  /\ held' = IF loc[t].outcome = "ok" /\ loc[t].ptr \in Ptrs
             THEN [held EXCEPT ![t] = @ \cup {loc[t].ptr}] ELSE held
  /\ pc' = [pc EXCEPT ![t] = "idle"]
  /\ loc' = [loc EXCEPT ![t] = NoRet]
  /\ UNCHANGED <<objects, device, aborted, observers>>

\* thread t calls deallocate(ptr, bytes, stream) through resource o with
\* nullptr or a pointer it owns
T_Deallocate(t, o, ptr, s) ==
  /\ ~aborted
  /\ pc[t] = "idle"
  /\ objects[o]
  /\ ptr \in {NullPtr} \cup held[t]
  /\ LET r == do_deallocate(o, ptr, SizeOf(ptr), s)
     IN /\ memFree' = r.memFree
        /\ allocated' = r.allocated
        /\ aborted' = (r.outcome = "abort")
        /\ held' = IF r.outcome = "ok" THEN [held EXCEPT ![t] = @ \ {ptr}] ELSE held
  /\ UNCHANGED <<objects, deviceOk, observers, pc, loc>>

T_DeviceFault ==
  /\ ~aborted
  /\ deviceOk
  /\ deviceOk' = FALSE
  /\ UNCHANGED <<objects, memFree, allocated, aborted, observers, threadVars>>

InitShared ==
  /\ objects = [o \in ObjIds |-> TRUE]
  /\ InitDevice
  /\ InitObservers
  /\ InitThreads

NextThreads ==
  \/ \E t \in Threads, o \in ObjIds, bytes \in Sizes, s \in Streams : T_Allocate(t, o, bytes, s)
  \/ \E t \in Threads : T_Return(t)
  \/ \E t \in Threads, o \in ObjIds, p \in {NullPtr} \cup Ptrs, s \in Streams : T_Deallocate(t, o, p, s)
  \/ T_DeviceFault

SpecThreads == InitShared /\ [][NextThreads]_vars

(* ---------------------------- properties ------------------------------ *)

Outstanding == {p \in Ptrs : allocated[p] > 0}

\* C1: for bytes > 0, a successful allocate(bytes, s) immediately followed by
\* deallocate(ptr, bytes, s) on its result: the deallocate succeeds and the
\* device free-memory count (and the set of allocations) is what it was
\* before the allocate.
C1_AllocThenDeallocRestores ==
  (last.op = "deallocate" /\ last.pair /\ last.bytes > 0) =>
    /\ last.outcome = "ok"
    /\ ~aborted
    /\ memFree = last.pairFree
    /\ allocated = last.pairAlloc

C1_Witness ==
  /\ last.op = "deallocate"
  /\ last.pair
  /\ last.bytes > 0
  /\ last.outcome = "ok"
  /\ last.ptr \in Ptrs
  /\ memFree = last.pairFree
  /\ memFree < TotalMem

\* C2: any two live cuda_memory_resource objects compare equal, releasing a
\* pointer through one has the same result as releasing it through the other,
\* and a pointer allocated through one resource and released through any
\* resource while the device is healthy is freed and no longer outstanding.
C2_InstancesInterchangeable ==
  /\ \A a, b \in LiveCuda : do_is_equal(a, b)
  /\ \A a, b \in LiveCuda, p \in {NullPtr} \cup Ptrs, s \in Streams :
       do_deallocate(a, p, SizeOf(p), s) = do_deallocate(b, p, SizeOf(p), s)
  /\ (last.op = "deallocate" /\ last.other \in ObjIds /\ deviceOk) =>
       /\ last.outcome = "ok"
       /\ ~aborted
       /\ allocated[last.ptr] = 0
       /\ memFree = last.freeBefore + RoundUp(last.bytes)

C2_Witness ==
  /\ last.op = "deallocate"
  /\ last.other \in ObjIds
  /\ last.other # last.obj
  /\ last.outcome = "ok"
  /\ allocated[last.ptr] = 0
  /\ Cardinality(LiveCuda) >= 2

\* C3: a failure of the native free during deallocate aborts the program, and
\* no native failure of any operation ends as a normal return.
C3_FreeFailureIsFatal ==
  /\ (last.op = "deallocate" /\ last.native # "cudaSuccess") =>
       (last.outcome = "abort" /\ aborted)
  /\ (last.op \in {"allocate", "get_mem_info"} /\ last.native # "cudaSuccess") =>
       (last.outcome \notin {"ok", "abort"} /\ last.ptr = NoPtr /\ last.info = NoInfo)

C3_Witness ==
  /\ last.op = "deallocate"
  /\ last.native = "cudaErrorInvalidValue"
  /\ last.outcome = "abort"
  /\ aborted

\* C4 as stated: after get_mem_info reported free_bytes, an allocate of more
\* than free_bytes (no deallocation in between) ends in OutOfMemory: no
\* pointer, no abort.
C4_Original ==
  (last.op = "allocate" /\ reported >= 0 /\ last.bytes > reported) =>
    /\ last.outcome = "out_of_memory"
    /\ last.ptr = NoPtr
    /\ ~aborted

\* C4 amended: such an allocate never returns a pointer and never aborts; it
\* ends in OutOfMemory unless the device has faulted since the report, and
\* then it ends in the typed non-OutOfMemory failure.
C4_OverReportedFails ==
  (last.op = "allocate" /\ reported >= 0 /\ last.bytes > reported) =>
    /\ last.outcome = (IF deviceOk THEN "out_of_memory" ELSE "bad_alloc")
    /\ last.ptr = NoPtr
    /\ ~aborted
    /\ memFree = last.freeBefore
    /\ allocated = last.allocBefore

C4_Witness ==
  /\ last.op = "allocate"
  /\ reported >= 0
  /\ last.bytes > reported
  /\ last.bytes <= TotalMem
  /\ last.outcome = "out_of_memory"

\* C5: supports_streams() is false and the stream token has no effect: in
\* every state, allocate and deallocate give the same outcome, pointer and
\* device state for every two tokens (each token gives what the default token
\* gives), and no token is rejected.
C5_StreamIgnored ==
  /\ supports_streams = FALSE
  /\ (last.op = "supports_streams" => last.flag = FALSE)
  /\ \A o \in LiveCuda, s \in Streams :
       /\ \A bytes \in Sizes, addr \in AddrChoices :
            do_allocate(o, bytes, s, addr) = do_allocate(o, bytes, DefaultStream, addr)
       /\ \A p \in {NullPtr} \cup Ptrs :
            do_deallocate(o, p, SizeOf(p), s) = do_deallocate(o, p, SizeOf(p), DefaultStream)

C5_Witness ==
  /\ last.op = "allocate"
  /\ last.outcome = "ok"
  /\ last.ptr \in Ptrs
  /\ \E o \in LiveCuda, s1, s2 \in Streams, addr \in AddrChoices, small, big \in Sizes :
       /\ s1 # s2
       /\ do_allocate(o, small, s1, addr).outcome = "ok"
       /\ do_allocate(o, small, s2, addr).ptr \in Ptrs
       /\ do_allocate(o, big, s1, addr).outcome = "out_of_memory"
       /\ do_allocate(o, big, s2, addr).outcome = "out_of_memory"

\* C6: supports_get_mem_info() is true and every successful get_mem_info
\* returns (free, total) in that order with total >= free >= 0, the
\* device-wide counters: total minus everything allocated through any resource.
C6_MemInfoDeviceWide ==
  /\ supports_get_mem_info = TRUE
  /\ (last.op = "supports_get_mem_info" => last.flag = TRUE)
  /\ (last.op = "get_mem_info" /\ last.outcome = "ok") =>
       /\ last.info[1] = memFree
       /\ last.info[2] = TotalMem
       /\ last.info[2] >= last.info[1]
       /\ last.info[1] >= 0
       /\ last.info[1] = TotalMem - SumAllocated(Outstanding)

C6_Witness ==
  /\ last.op = "get_mem_info"
  /\ last.outcome = "ok"
  /\ last.info[1] < last.info[2]
  /\ \E p \in Outstanding : via[p] # last.obj
  /\ \A p \in Outstanding : via[p] # last.obj

\* C7: allocate(0, s) never aborts and changes nothing on the device; when it
\* returns, it returns the null sentinel, and passing that immediately to
\* deallocate(ptr, 0, s) succeeds without aborting and leaves the free count
\* and the outstanding allocations unchanged.
C7_ZeroByteRoundTrip ==
  /\ (last.op = "allocate" /\ last.bytes = 0) =>
       /\ ~aborted
       /\ last.outcome # "abort"
       /\ (deviceOk => last.outcome = "ok")
       /\ (last.outcome = "ok" => last.ptr = NullPtr)
       /\ memFree = last.freeBefore
       /\ allocated = last.allocBefore
  /\ (last.op = "deallocate" /\ last.pair /\ last.bytes = 0) =>
       /\ last.outcome = "ok"
       /\ ~aborted
       /\ memFree = last.freeBefore
       /\ allocated = last.allocBefore
       /\ memFree = last.pairFree
       /\ allocated = last.pairAlloc

C7_Witness ==
  /\ last.op = "deallocate"
  /\ last.pair
  /\ last.bytes = 0
  /\ last.ptr = NullPtr
  /\ last.outcome = "ok"
  /\ Outstanding # {}

\* C8: a native error other than an allocation failure during allocate or
\* get_mem_info reaches the caller as a typed failure that is not
\* OutOfMemory, and OutOfMemory is reported only when the native allocation
\* primitive could not satisfy the requested size.
C8_ErrorsAreTyped ==
  /\ (last.op = "allocate"
        /\ last.native \notin {"cudaSuccess", "cudaErrorMemoryAllocation"}) =>
       last.outcome = "bad_alloc"
  /\ (last.op = "get_mem_info" /\ last.native # "cudaSuccess") =>
       last.outcome = "cuda_error"
  /\ (last.outcome = "out_of_memory") =>
       /\ last.op = "allocate"
       /\ last.native = "cudaErrorMemoryAllocation"
       /\ RoundUp(last.bytes) > last.freeBefore

C8_Witness ==
  /\ last.op = "allocate"
  /\ last.native = "cudaErrorLaunchFailure"
  /\ last.outcome = "bad_alloc"
  /\ last.bytes > 0
  /\ RoundUp(last.bytes) <= memFree

\* C9: with several threads calling allocate and deallocate concurrently on
\* the same or on equal instances, the resource objects never change, no
\* pointer is owned by two callers (or by one caller twice), exactly the
\* owned pointers are allocated, and the free count is the total minus the
\* sizes of the owned allocations.
Owned(t) ==
  held[t] \cup (IF pc[t] = "returning" /\ loc[t].outcome = "ok" /\ loc[t].ptr \in Ptrs
                THEN {loc[t].ptr} ELSE {})

AllOwned == UNION {Owned(t) : t \in Threads}

C9_ConcurrentCallsSafe ==
  /\ objects = [o \in ObjIds |-> TRUE]
  /\ \A t1, t2 \in Threads : t1 # t2 => Owned(t1) \cap Owned(t2) = {}
  /\ \A t \in Threads :
       (pc[t] = "returning" /\ loc[t].outcome = "ok") => loc[t].ptr \notin held[t]
  /\ Outstanding = AllOwned
  /\ memFree = TotalMem - SumAllocated(AllOwned)

C9_Witness ==
  \E t1, t2 \in Threads :
    /\ t1 # t2
    /\ pc[t1] = "returning"
    /\ loc[t1].outcome = "ok"
    /\ loc[t1].ptr \in Ptrs
    /\ held[t2] # {}
    /\ memFree = 0

\* C10: a failed allocate changes nothing: no pointer reaches the caller (a
\* typed failure is raised instead), and the free count and the outstanding
\* allocations are what they were before the call.
C10_FailedAllocateChangesNothing ==
  (last.op = "allocate" /\ last.native # "cudaSuccess") =>
    /\ last.ptr = NoPtr
    /\ last.outcome \in {"out_of_memory", "bad_alloc"}
    /\ ~aborted
    /\ memFree = last.freeBefore
    /\ allocated = last.allocBefore
    /\ \A p \in Ptrs : (allocated[p] = 0) = (via[p] = NoObj)

C10_Witness ==
  /\ last.op = "allocate"
  /\ last.outcome = "out_of_memory"
  /\ last.ptr = NoPtr
  /\ Outstanding # {}
  /\ memFree > 0

====
